---- MODULE Spec2Model ----
(***************************************************************************)
(* Model of main.py: the Disney+ viewing-history export is sorted and      *)
(* de-duplicated, then every surviving row is resolved against TMDB        *)
(* (TMDBClient) and turned into tv / season / episode / movie records.     *)
(*                                                                         *)
(* Text is modelled as a sequence of one-character strings so that         *)
(* str.lower() and str.strip() are computed, not assumed.                  *)
(***************************************************************************)
EXTENDS Integers, Sequences, FiniteSets, TLC

VARIABLES
    input_found,         \* FALSE when INPUT_FILE does not exist
    csv,                 \* rows of INPUT_FILE in file order
    df,                  \* the data frame after sort + drop_duplicates: csv row numbers
    pos,                 \* position of the row loop in df (1-based)
    pc,                  \* "start" | "loop" | "done" | "aborted" | "crashed"
    yamtrack_rows,       \* the output list
    processed_tv_shows,  \* set of tv ids
    processed_seasons,   \* set of season keys (text)
    show_cache,          \* TMDBClient._show_cache: tv id -> episode index
    log,                 \* entries of LOG_FILE, in order
    written,             \* TRUE once OUTPUT_FILE has been written
    requests,            \* history: every HTTP request issued, with its outcome
    calls,               \* history: every get_episode_info call
    origin               \* history: for each output record, the csv row it came from

vars == <<input_found, csv, df, pos, pc, yamtrack_rows, processed_tv_shows, processed_seasons,
          show_cache, log, written, requests, calls, origin>>

----------------------------------------------------------------------------
\* Bounds of the model.

MaxRows == 2
MaxTime == 2

----------------------------------------------------------------------------
\* Text.

UpperCase == <<"A","B","C","D","E","F","G","H","I","J","K","L","M",
               "N","O","P","Q","R","S","T","U","V","W","X","Y","Z">>
LowerCase == <<"a","b","c","d","e","f","g","h","i","j","k","l","m",
               "n","o","p","q","r","s","t","u","v","w","x","y","z">>
Whitespace == {" ", "\t", "\n"}

\* The lower-case letter of every upper-case letter.
LowerOf == [c \in {UpperCase[i] : i \in DOMAIN UpperCase} |->
               LowerCase[CHOOSE i \in DOMAIN UpperCase : UpperCase[i] = c]]

LowerChar(c) == IF c \in DOMAIN LowerOf THEN LowerOf[c] ELSE c

\* str.lower()
Lower(s) == [i \in DOMAIN s |-> LowerChar(s[i])]

\* str.strip(): drop the leading and the trailing whitespace
RECURSIVE LStrip(_)
LStrip(s) == IF s # <<>> /\ Head(s) \in Whitespace THEN LStrip(Tail(s)) ELSE s

RECURSIVE RStrip(_)
RStrip(s) ==
    IF s # <<>> /\ s[Len(s)] \in Whitespace THEN RStrip(SubSeq(s, 1, Len(s) - 1)) ELSE s

Strip(s) == RStrip(LStrip(s))

\* s.lower().strip()
Normalize(s) == Strip(Lower(s))

\* str(n) for n >= 0
DigitChars == <<"0","1","2","3","4","5","6","7","8","9">>
RECURSIVE Digits(_)
Digits(n) == IF n < 10 THEN <<DigitChars[n + 1]>>
             ELSE Digits(n \div 10) \o <<DigitChars[(n % 10) + 1]>>

----------------------------------------------------------------------------
\* The titles the export may carry.  <<>> is an empty CSV field, which
\* pandas.read_csv turns into NaN.

T_Pilot      == <<"P","i","l","o","t">>
T_pilot_     == <<"p","i","l","o","t"," ">>
T_S1E1_Pilot == <<"S","1","E","1"," ","P","i","l","o","t">>
T_Finale     == <<"F","i","n","a","l","e">>
T_finale_    == <<"f","i","n","a","l","e"," ">>
T_Some_Movie == <<"S","o","m","e"," ","M","o","v","i","e">>
T_My_Show    == <<"M","y"," ","S","h","o","w">>
T_The_Show   == <<"T","h","e"," ","S","h","o","w">>
T_Other      == <<"O","t","h","e","r">>
T_Ghost_Show == <<"G","h","o","s","t"," ","S","h","o","w">>

\* The (Program Title, Season Title) pairs a row may carry: no-op, malformed,
\* movie (found, not found), and episodes of show 42 (under two season
\* titles), of show 7 and of a show the catalog does not know.
TitlePairs ==
    << <<<<>>, <<>>>>,
       <<<<>>, T_My_Show>>,
       <<T_Some_Movie, <<>>>>,
       <<T_Pilot, <<>>>>,
       <<T_Pilot, T_My_Show>>,
       <<T_pilot_, T_My_Show>>,
       <<T_S1E1_Pilot, T_My_Show>>,
       <<T_Finale, T_My_Show>>,
       <<T_Pilot, T_The_Show>>,
       <<T_Pilot, T_Other>>,
       <<T_Finale, T_Other>>,
       <<T_Pilot, T_Ghost_Show>> >>

ProgramTitles == {TitlePairs[k][1] : k \in DOMAIN TitlePairs}

\* The rows, numbered: a title pair and a timestamp in 1..MaxTime.
NumRows == Len(TitlePairs) * MaxTime
RowOf(n) ==
    [pt |-> TitlePairs[((n - 1) \div MaxTime) + 1][1],
     st |-> TitlePairs[((n - 1) \div MaxTime) + 1][2],
     ts |-> ((n - 1) % MaxTime) + 1]

\* The input files: at most MaxRows rows.  SortValues takes the rows of equal
\* timestamp in every order, so the order of the rows in the file does not
\* matter and one file stands for all its permutations.
Inputs ==
    {[k \in DOMAIN f |-> RowOf(f[k])] :
        f \in UNION {{g \in [1..n -> 1..NumRows] :
                         \A a, b \in 1..n : a < b => g[a] <= g[b]} :
                     n \in 0..MaxRows}}

----------------------------------------------------------------------------
\* The remote catalog (TMDB), as it answers when it answers in full.

\* None, a search without result and (None, None) are the empty tuple; a
\* search result is <<id>> and an episode coordinate <<season, episode>>.
None == <<>>

\* GET /search/tv: the "results" list (ids) for a query
SearchTvResults(q) ==
    IF q = T_My_Show THEN <<42, 7>>
    ELSE IF q = T_The_Show THEN <<42>>
    ELSE IF q = T_Other THEN <<7>>
    ELSE <<>>

\* GET /search/movie: the "results" list (ids) for a query
SearchMovieResults(q) ==
    IF q = T_Some_Movie THEN <<99>> ELSE <<>>

\* GET /tv/{id}: the "seasons" list (season numbers)
ShowSeasons(tv_id) ==
    IF tv_id = 42 THEN <<1, 2>>
    ELSE IF tv_id = 7 THEN <<1>>
    ELSE <<>>

\* GET /tv/{id}/season/{n}: the "episodes" list
SeasonEpisodes(tv_id, sn) ==
    IF tv_id = 42 /\ sn = 1 THEN
        <<[name |-> T_Pilot, episode_number |-> 1]>>
    ELSE IF tv_id = 42 /\ sn = 2 THEN
        <<[name |-> T_Finale, episode_number |-> 1],
          [name |-> T_finale_, episode_number |-> 2]>>
    ELSE IF tv_id = 7 /\ sn = 1 THEN
        <<[name |-> T_pilot_, episode_number |-> 1],
          [name |-> T_Finale, episode_number |-> 2]>>
    ELSE <<>>

\* How one request can end: "ok" a body of the expected shape; "nokey" a JSON
\* object without the expected key (as an error body is); "raise" the request
\* or the decoding of its body raises (connection error, body not JSON, ...).
Resp == {"ok", "nokey", "raise"}

\* One entry of the request history: query is the searched title (<<>> for
\* the /tv/... requests), tv_id and season the path (-1 when not in the path),
\* row the csv row being processed.
Request(kind, query, tv_id, sn, resp, row) ==
    [kind |-> kind, query |-> query, tv_id |-> tv_id, season |-> sn,
     resp |-> resp, row |-> row]

----------------------------------------------------------------------------
\* TMDBClient

EmptyDict == [x \in {} |-> x]

\* d[k] = v
Put(d, k, v) == [x \in DOMAIN d \cup {k} |-> IF x = k THEN v ELSE d[x]]

\* (variant: the last search result instead of the first)
LastResult(results) == IF results # <<>> THEN <<results[Len(results)]>> ELSE None

\* results[0] if results else None
FirstResult(results) == IF results # <<>> THEN <<Head(results)>> ELSE None

\* response.json().get("results", [])
ResultsOf(resp, results) == IF resp = "ok" THEN results ELSE <<>>

\* search_movie(title), given how its request ended (not "raise")
search_movie(title, resp) == FirstResult(ResultsOf(resp, SearchMovieResults(title)))

\* search_tv_show(show_name), given how its request ended (not "raise")
search_tv_show(show_name, resp) == FirstResult(ResultsOf(resp, SearchTvResults(show_name)))

\* (variant: no cache check, the index is rebuilt on every call)
CacheNeverHit(cache, tv_id) == FALSE

\* (variant: an empty cached index counts as a miss)
CacheHitNonEmpty(cache, tv_id) == tv_id \in DOMAIN cache /\ DOMAIN cache[tv_id] # {}

\* tv_id in self._show_cache
CacheHit(cache, tv_id) == tv_id \in DOMAIN cache

\* episode["name"].lower().strip(): the key an episode is stored under
IndexKey(name) == Normalize(name)

\* (variant: the queried title is lower-cased but not stripped)
LookupKeyNoStrip(episode_title) == Lower(episode_title)

\* episode_title.lower().strip(): the key a queried title is looked up under
LookupKey(episode_title) == Normalize(episode_title)

\* for episode in season_data.get("episodes", []): all_episodes[...] = (...)
RECURSIVE EpisodeLoop(_, _, _)
EpisodeLoop(all_episodes, episodes, season_number) ==
    IF episodes = <<>> THEN all_episodes
    ELSE EpisodeLoop(Put(all_episodes, IndexKey(Head(episodes).name),
                         <<season_number, Head(episodes).episode_number>>),
                     Tail(episodes), season_number)

\* for season in show_data.get("seasons", []): one request per season, in
\* order; sresps[k] is how the k-th of them ends.  The loop stops at the first
\* request that raises.
RECURSIVE SeasonLoop(_, _, _, _, _, _, _)
SeasonLoop(tv_id, seasons, sresps, k, all_episodes, reqs, row) ==
    IF k > Len(seasons) THEN
        [all_episodes |-> all_episodes, reqs |-> reqs, raised |-> FALSE]
    ELSE
        LET season_number == seasons[k]
            reqs1 == Append(reqs, Request("season", <<>>, tv_id, season_number, sresps[k], row))
        IN  IF sresps[k] = "raise" THEN
                [all_episodes |-> all_episodes, reqs |-> reqs1, raised |-> TRUE]
            ELSE
                LET episodes == IF sresps[k] = "ok"
                                THEN SeasonEpisodes(tv_id, season_number) ELSE <<>>
                IN  SeasonLoop(tv_id, seasons, sresps, k + 1,
                               EpisodeLoop(all_episodes, episodes, season_number),
                               reqs1, row)

\* show_data.get("seasons", [])
SeasonsOf(tv_id, shresp) == IF shresp = "ok" THEN ShowSeasons(tv_id) ELSE <<>>

\* The build of the index on a cache miss: the show request, then SeasonLoop.
BuildIndex(tv_id, shresp, sresps, reqs, row) ==
    LET reqs1 == Append(reqs, Request("show", <<>>, tv_id, -1, shresp, row))
    IN  IF shresp = "raise" THEN
            [all_episodes |-> EmptyDict, reqs |-> reqs1, raised |-> TRUE]
        ELSE SeasonLoop(tv_id, SeasonsOf(tv_id, shresp), sresps, 1, EmptyDict, reqs1, row)

\* self._show_cache[tv_id].get(episode_title.lower().strip(), (None, None))
Lookup(index, episode_title) ==
    IF LookupKey(episode_title) \in DOMAIN index
    THEN index[LookupKey(episode_title)] ELSE None

\* get_episode_info(tv_id, episode_title): the cache, the request history and
\* the returned coordinate after the call (raised: the call did not return).
get_episode_info(cache, tv_id, episode_title, shresp, sresps, reqs, row) ==
    IF CacheHit(cache, tv_id) THEN
        [cache |-> cache, reqs |-> reqs, raised |-> FALSE,
         result |-> Lookup(cache[tv_id], episode_title)]
    ELSE
        LET b == BuildIndex(tv_id, shresp, sresps, reqs, row)
        IN  IF b.raised THEN
                [cache |-> cache, reqs |-> b.reqs, raised |-> TRUE, result |-> None]
            ELSE
                [cache |-> Put(cache, tv_id, b.all_episodes), reqs |-> b.reqs,
                 raised |-> FALSE, result |-> Lookup(b.all_episodes, episode_title)]

----------------------------------------------------------------------------
\* process_disney_data: reading, sorting and de-duplicating the export.

RECURSIVE Perms(_)
Perms(S) == IF S = {} THEN {<<>>}
            ELSE UNION {{<<x>> \o p : p \in Perms(S \ {x})} : x \in S}

\* df.sort_values(by=["End Date", "End Time"]): the row numbers in ascending
\* timestamp order; the order among equal timestamps is not specified.
SortValues(rows) ==
    {o \in Perms(DOMAIN rows) :
        \A a, b \in DOMAIN o : a < b => rows[o[a]].ts <= rows[o[b]].ts}

SameKey(r1, r2) == r1.pt = r2.pt /\ r1.st = r2.st

\* (variant: keep="first")
KeepFirst(rows, order, a) == ~\E b \in 1..(a - 1) : SameKey(rows[order[a]], rows[order[b]])

\* keep="last": a row is dropped when a later one has the same
\* (Program Title, Season Title)
KeepLast(rows, order, a) ==
    ~\E b \in (a + 1)..Len(order) : SameKey(rows[order[a]], rows[order[b]])

RECURSIVE DropFrom(_, _, _)
DropFrom(rows, order, a) ==
    IF a > Len(order) THEN <<>>
    ELSE (IF KeepLast(rows, order, a) THEN <<order[a]>> ELSE <<>>)
         \o DropFrom(rows, order, a + 1)

\* df.drop_duplicates(subset=["Program Title", "Season Title"], keep="last")
DropDuplicates(rows, order) == DropFrom(rows, order, 1)

\* str(row[...]).strip() if pandas.notna(row[...]) else ""
Title(field) == IF field # <<>> THEN Strip(field) ELSE <<>>

\* f"{end_date} {end_time}+00:00"; the timestamp is End Date and End Time,
\* ordered as the sort orders them.
EndDatetime(ts) == Digits(ts) \o <<"+","0","0",":","0","0">>

----------------------------------------------------------------------------
\* process_disney_data: the records.  Text fields that the code leaves empty
\* are <<>>.

TvEntry(tv_id) ==
    [media_id |-> tv_id, source |-> "tmdb", media_type |-> "tv",
     status |-> "In progress", end_date |-> <<>>]

SeasonEntry(tv_id, season_number) ==
    [media_id |-> tv_id, source |-> "tmdb", media_type |-> "season",
     season_number |-> season_number, status |-> "In progress", end_date |-> <<>>]

EpisodeEntry(tv_id, season_number, episode_number, end_datetime) ==
    [media_id |-> tv_id, source |-> "tmdb", media_type |-> "episode",
     season_number |-> season_number, episode_number |-> episode_number,
     status |-> "Completed", end_date |-> end_datetime]

MovieEntry(movie_id, end_datetime) ==
    [media_id |-> movie_id, source |-> "tmdb", media_type |-> "movie",
     status |-> "Completed", end_date |-> end_datetime]

\* (variant: the season key leaves out the show id)
SeasonKeyNoId(tv_id, season_number) == Digits(season_number)

\* season_key = f"{tv_id}_{season_number}"
SeasonKey(tv_id, season_number) == Digits(tv_id) \o <<"_">> \o Digits(season_number)

\* if tv_id not in processed_tv_shows
NeedsTvEntry(tvs, tv_id) == tv_id \notin tvs

\* if season_key not in processed_seasons
NeedsSeasonEntry(seasons, season_key) == season_key \notin seasons

\* (variant: the episode record is appended before the tier records)
EpisodeRecordsEpisodeFirst(tvs, seasons, tv_id, coord, end_datetime) ==
    <<EpisodeEntry(tv_id, coord[1], coord[2], end_datetime)>>
    \o (IF tv_id \notin tvs THEN <<TvEntry(tv_id)>> ELSE <<>>)
    \o (IF Digits(tv_id) \o <<"_">> \o Digits(coord[1]) \notin seasons
        THEN <<SeasonEntry(tv_id, coord[1])>> ELSE <<>>)

\* The body of "if season_number is not None": the records appended for one
\* resolved episode row, in order.
EpisodeRecords(tvs, seasons, tv_id, coord, end_datetime) ==
    (IF NeedsTvEntry(tvs, tv_id) THEN <<TvEntry(tv_id)>> ELSE <<>>)
    \o (IF NeedsSeasonEntry(seasons, SeasonKey(tv_id, coord[1]))
        THEN <<SeasonEntry(tv_id, coord[1])>> ELSE <<>>)
    \o <<EpisodeEntry(tv_id, coord[1], coord[2], end_datetime)>>

LogEntry(level, what, row) == [level |-> level, what |-> what, row |-> row]

CallEntry(tv_id, title, row, from, g) ==
    [tv_id |-> tv_id, title |-> title, row |-> row, from |-> from,
     to |-> Len(g.reqs), raised |-> g.raised, result |-> g.result]

----------------------------------------------------------------------------
\* The state machine.

Init ==
    /\ input_found \in BOOLEAN
    /\ csv \in (IF input_found THEN Inputs ELSE {<<>>})
    /\ df = <<>>
    /\ pos = 1
    /\ pc = "start"
    /\ yamtrack_rows = <<>>
    /\ processed_tv_shows = {}
    /\ processed_seasons = {}
    /\ show_cache = EmptyDict
    /\ log = <<>>
    /\ written = FALSE
    /\ requests = <<>>
    /\ calls = <<>>
    /\ origin = <<>>

\* except FileNotFoundError: print(...); return
InputMissing ==
    /\ pc = "start" /\ ~input_found
    /\ pc' = "aborted"
    /\ UNCHANGED <<input_found, csv, df, pos, yamtrack_rows, processed_tv_shows,
                   processed_seasons, show_cache, log, written, requests, calls, origin>>

\* read_csv, sort_values, drop_duplicates
ReadInput ==
    /\ pc = "start" /\ input_found
    /\ \E order \in SortValues(csv) : df' = DropDuplicates(csv, order)
    /\ pos' = 1
    /\ pc' = "loop"
    /\ UNCHANGED <<input_found, csv, yamtrack_rows, processed_tv_shows,
                   processed_seasons, show_cache, log, written, requests, calls, origin>>

InLoop == pc = "loop" /\ pos <= Len(df)

program_title == Title(csv[df[pos]].pt)
season_title  == Title(csv[df[pos]].st)
end_datetime  == EndDatetime(csv[df[pos]].ts)

\* A request raised: nothing catches it, process_disney_data is left.
Crash(reqs, cls) ==
    /\ pc' = "crashed"
    /\ requests' = reqs
    /\ calls' = cls
    /\ UNCHANGED <<input_found, csv, df, pos, yamtrack_rows, processed_tv_shows,
                   processed_seasons, show_cache, log, written, origin>>

\* (variant: the row is skipped without its diagnostic)
SkipNoLog(level, what, reqs, cls, cache) ==
    /\ pos' = pos + 1
    /\ requests' = reqs
    /\ calls' = cls
    /\ show_cache' = cache
    /\ UNCHANGED <<input_found, csv, df, pc, yamtrack_rows, processed_tv_shows,
                   processed_seasons, written, origin, log>>

\* The row is skipped with one diagnostic.
Skip(level, what, reqs, cls, cache) ==
    /\ log' = Append(log, LogEntry(level, what, df[pos]))
    /\ pos' = pos + 1
    /\ requests' = reqs
    /\ calls' = cls
    /\ show_cache' = cache
    /\ UNCHANGED <<input_found, csv, df, pc, yamtrack_rows, processed_tv_shows,
                   processed_seasons, written, origin>>

\* case 1: season_title existing, episode title missing
RowMalformed ==
    /\ InLoop
    /\ program_title = <<>> /\ season_title # <<>>
    /\ Skip("WARNING", "missing episode title", requests, calls, show_cache)

\* case 2: series
RowEpisode ==
    /\ InLoop
    /\ program_title # <<>> /\ season_title # <<>>
    /\ \E resp \in Resp :
        LET reqs1 == Append(requests,
                            Request("search_tv", season_title, -1, -1, resp, df[pos]))
        IN  IF resp = "raise" THEN Crash(reqs1, calls)
            ELSE
              LET show_info == search_tv_show(season_title, resp)
              IN  IF show_info = None
                  THEN Skip("ERROR", "series", reqs1, calls, show_cache)
                  ELSE
                    LET tv_id == show_info[1]
                    IN  \E shresp \in Resp :
                        \E sresps \in [1..Len(SeasonsOf(tv_id, shresp)) -> Resp] :
                          LET g == get_episode_info(show_cache, tv_id, program_title,
                                                    shresp, sresps, reqs1, df[pos])
                              cls == Append(calls, CallEntry(tv_id, program_title,
                                                             df[pos], Len(reqs1), g))
                          IN  IF g.raised THEN Crash(g.reqs, cls)
                              ELSE IF g.result = None
                              THEN Skip("ERROR", "episode", g.reqs, cls, g.cache)
                              ELSE
                                LET new == EpisodeRecords(processed_tv_shows,
                                                          processed_seasons, tv_id,
                                                          g.result, end_datetime)
                                IN  /\ yamtrack_rows' = yamtrack_rows \o new
                                    /\ origin' = origin \o [k \in DOMAIN new |-> df[pos]]
                                    /\ processed_tv_shows' = processed_tv_shows \cup {tv_id}
                                    /\ processed_seasons' = processed_seasons
                                           \cup {SeasonKey(tv_id, g.result[1])}
                                    /\ requests' = g.reqs
                                    /\ calls' = cls
                                    /\ show_cache' = g.cache
                                    /\ pos' = pos + 1
                                    /\ UNCHANGED <<input_found, csv, df, pc, log, written>>

\* case 3: movie
RowMovie ==
    /\ InLoop
    /\ program_title # <<>> /\ season_title = <<>>
    /\ \E resp \in Resp :
        LET reqs1 == Append(requests,
                            Request("search_movie", program_title, -1, -1, resp, df[pos]))
        IN  IF resp = "raise" THEN Crash(reqs1, calls)
            ELSE
              LET movie_info == search_movie(program_title, resp)
              IN  IF movie_info = None
                  THEN Skip("ERROR", "movie", reqs1, calls, show_cache)
                  ELSE
                    /\ yamtrack_rows' = Append(yamtrack_rows,
                                               MovieEntry(movie_info[1], end_datetime))
                    /\ origin' = Append(origin, df[pos])
                    /\ requests' = reqs1
                    /\ pos' = pos + 1
                    /\ UNCHANGED <<input_found, csv, df, pc, processed_tv_shows,
                                   processed_seasons, show_cache, log, written, calls>>

\* both titles empty: no branch is taken
RowNoop ==
    /\ InLoop
    /\ program_title = <<>> /\ season_title = <<>>
    /\ pos' = pos + 1
    /\ UNCHANGED <<input_found, csv, df, pc, yamtrack_rows, processed_tv_shows,
                   processed_seasons, show_cache, log, written, requests, calls, origin>>

\* after the loop: the output file is written
WriteOutput ==
    /\ pc = "loop" /\ pos > Len(df)
    /\ written' = TRUE
    /\ pc' = "done"
    /\ UNCHANGED <<input_found, csv, df, pos, yamtrack_rows, processed_tv_shows,
                   processed_seasons, show_cache, log, requests, calls, origin>>

Next ==
    \/ InputMissing
    \/ ReadInput
    \/ RowMalformed
    \/ RowEpisode
    \/ RowMovie
    \/ RowNoop
    \/ WriteOutput

Spec == Init /\ [][Next]_vars

----------------------------------------------------------------------------
\* Reading the histories.

Range(f) == {f[x] : x \in DOMAIN f}

\* The get_episode_info calls that returned a coordinate.
Resolved == {k \in DOMAIN calls : ~calls[k].raised /\ calls[k].result # None}

IsTv(r, id) == r.media_type = "tv" /\ r.media_id = id
IsSeason(r, id, sn) == r.media_type = "season" /\ r.media_id = id /\ r.season_number = sn
IsEpisodeOf(r, id, sn) ==
    r.media_type = "episode" /\ r.media_id = id /\ r.season_number = sn

CountRows(P(_)) == Cardinality({n \in DOMAIN yamtrack_rows : P(yamtrack_rows[n])})

----------------------------------------------------------------------------
\* C1. At-most-once tier emission: for every show id some episode row has
\* resolved to, the output holds exactly one "tv" record for that id, and for
\* every season number a row resolved to under that id exactly one "season"
\* record, however many rows and however many season titles resolved to it.
C1_TierOnce ==
    \A k \in Resolved :
        LET id == calls[k].tv_id
            sn == calls[k].result[1]
        IN  /\ CountRows(LAMBDA r : IsTv(r, id)) = 1
            /\ CountRows(LAMBDA r : IsSeason(r, id, sn)) = 1

\* Two rows with different season titles resolved to one show id, in
\* different seasons, and the run is over.
C1_Witness ==
    /\ pc = "done"
    /\ \E j, k \in Resolved :
        /\ calls[j].tv_id = calls[k].tv_id
        /\ calls[j].result[1] # calls[k].result[1]
        /\ csv[calls[j].row].st # csv[calls[k].row].st

\* Every "episode" record follows a "season" record of its show and season,
\* every "season" record a "tv" record of its show.
C2_Ordered ==
    \A n \in DOMAIN yamtrack_rows :
        LET r == yamtrack_rows[n]
        IN  /\ r.media_type = "episode" =>
                \E m \in 1..(n - 1) :
                    IsSeason(yamtrack_rows[m], r.media_id, r.season_number)
            /\ r.media_type = "season" =>
                \E m \in 1..(n - 1) : IsTv(yamtrack_rows[m], r.media_id)

\* A step in which an episode row resolves to a show and a season that the
\* output already declares appends the episode record and nothing else.
C2_OnlyEpisode ==
    (/\ Len(calls') = Len(calls) + 1
     /\ Len(calls') \in {k \in DOMAIN calls' : ~calls'[k].raised /\ calls'[k].result # None}
     /\ LET c == calls'[Len(calls')]
        IN  /\ \E m \in DOMAIN yamtrack_rows : IsTv(yamtrack_rows[m], c.tv_id)
            /\ \E m \in DOMAIN yamtrack_rows :
                   IsSeason(yamtrack_rows[m], c.tv_id, c.result[1]))
    => LET c == calls'[Len(calls')]
       IN  yamtrack_rows' =
               Append(yamtrack_rows,
                      EpisodeEntry(c.tv_id, c.result[1], c.result[2],
                                   EndDatetime(csv[c.row].ts)))

\* C2. Hierarchical ordering: at every point of the run every "episode"
\* record follows a "season" record of its show and season, every "season"
\* record follows a "tv" record of its show; and a resolved episode row whose
\* show and season are already declared appends the episode record alone.
C2_Hierarchy == [](C2_Ordered) /\ [][C2_OnlyEpisode]_vars

\* A second episode of an already declared show and season has been appended.
C2_Witness ==
    /\ Len(yamtrack_rows) = 4
    /\ yamtrack_rows[1].media_type = "tv"
    /\ yamtrack_rows[2].media_type = "season"
    /\ yamtrack_rows[3].media_type = "episode"
    /\ yamtrack_rows[4].media_type = "episode"
    /\ yamtrack_rows[4].media_id = yamtrack_rows[3].media_id
    /\ yamtrack_rows[4].season_number = yamtrack_rows[3].season_number
    /\ yamtrack_rows[4].episode_number # yamtrack_rows[3].episode_number

\* What a csv row has contributed: output records, requests, diagnostics.
Contributes(i) ==
    \/ i \in Range(origin)
    \/ \E n \in DOMAIN requests : requests[n].row = i
    \/ \E n \in DOMAIN log : log[n].row = i

\* C3. Dedup law: of the rows sharing (Program Title, Season Title) one
\* survives the de-duplication, and it carries the latest timestamp among
\* them; a row with an earlier timestamp than a row of the same key is not in
\* the frame and contributes no output record, no request and no diagnostic.
C3_DedupLaw ==
    pc \notin {"start", "aborted"} =>
        /\ \A i \in DOMAIN csv :
              /\ Cardinality({a \in DOMAIN df : SameKey(csv[df[a]], csv[i])}) = 1
              /\ \A a \in DOMAIN df :
                    SameKey(csv[df[a]], csv[i]) => csv[i].ts <= csv[df[a]].ts
        /\ \A i, j \in DOMAIN csv :
              (SameKey(csv[i], csv[j]) /\ csv[i].ts < csv[j].ts) =>
                  (i \notin Range(df) /\ ~Contributes(i))

\* Two rows share their key, the later one is the source of an output record
\* and the run is over.
C3_Witness ==
    /\ pc = "done"
    /\ \E i, j \in DOMAIN csv :
        /\ SameKey(csv[i], csv[j])
        /\ csv[i].ts < csv[j].ts
        /\ j \in Range(origin)

\* The first get_episode_info call for a show id.
FirstCall(id) == CHOOSE k \in DOMAIN calls :
    calls[k].tv_id = id /\ \A j \in 1..(k - 1) : calls[j].tv_id # id

IndexRequests(id) ==
    {n \in DOMAIN requests :
        requests[n].kind \in {"show", "season"} /\ requests[n].tv_id = id}

\* The index requests for a show id lie in the first call for the id; the
\* later calls issue none and return what the stored index holds.
C4_RequestsInFirstCall ==
    /\ \A n \in DOMAIN requests :
          requests[n].kind \in {"show", "season"} =>
              /\ \E k \in DOMAIN calls : calls[k].tv_id = requests[n].tv_id
              /\ LET c == calls[FirstCall(requests[n].tv_id)]
                 IN  c.from < n /\ n <= c.to
    /\ \A id \in {calls[k].tv_id : k \in DOMAIN calls} :
          Cardinality({n \in IndexRequests(id) : requests[n].kind = "show"}) <= 1
    /\ \A k \in DOMAIN calls :
          k # FirstCall(calls[k].tv_id) =>
              /\ calls[k].to = calls[k].from
              /\ ~calls[k].raised
              /\ calls[k].tv_id \in DOMAIN show_cache
              /\ calls[k].result = Lookup(show_cache[calls[k].tv_id], calls[k].title)

\* A stored index stays stored and unchanged.
C4_IndexFrozen ==
    \A id \in DOMAIN show_cache :
        id \in DOMAIN show_cache' /\ show_cache'[id] = show_cache[id]

\* C4. Episode index built at most once: every show-details and season
\* request for a show id is issued during the first get_episode_info call for
\* that id, one show-details request at most; every later call for the id
\* issues no request and returns what the stored index holds; and an index,
\* once stored, is never modified.
C4_BuiltOnce == [](C4_RequestsInFirstCall) /\ [][C4_IndexFrozen]_vars

\* A second call for a show id has returned from the cache.
C4_Witness ==
    \E j, k \in DOMAIN calls :
        /\ j < k
        /\ calls[j].tv_id = calls[k].tv_id
        /\ calls[j].to > calls[j].from
        /\ calls[k].to = calls[k].from
        /\ calls[k].result # None

\* C5. Failure containment: a catalog request that fails never ends the row
\* loop; its row is skipped with a diagnostic, the remaining rows are
\* processed and the output file is written.
C5_FailureContained ==
    \A n \in DOMAIN requests :
        requests[n].resp = "raise" =>
            /\ pc \in {"loop", "done"}
            /\ \E m \in DOMAIN log : log[m].row = requests[n].row
            /\ (pc = "done" => written)

\* The four skippable outcomes of a step of the row loop.
LastRequest == requests'[Len(requests')]

Malformed == InLoop /\ program_title = <<>> /\ season_title # <<>>

ShowAbsent ==
    /\ InLoop /\ program_title # <<>> /\ season_title # <<>>
    /\ Len(requests') = Len(requests) + 1
    /\ LastRequest.resp # "raise"
    /\ search_tv_show(LastRequest.query, LastRequest.resp) = None

EpisodeAbsent ==
    /\ InLoop /\ program_title # <<>> /\ season_title # <<>>
    /\ Len(calls') = Len(calls) + 1
    /\ ~calls'[Len(calls')].raised
    /\ calls'[Len(calls')].result = None

MovieAbsent ==
    /\ InLoop /\ program_title # <<>> /\ season_title = <<>>
    /\ Len(requests') = Len(requests) + 1
    /\ LastRequest.resp # "raise"
    /\ search_movie(LastRequest.query, LastRequest.resp) = None

C6_SkipStep ==
    (Malformed \/ ShowAbsent \/ EpisodeAbsent \/ MovieAbsent) =>
        /\ yamtrack_rows' = yamtrack_rows
        /\ processed_tv_shows' = processed_tv_shows
        /\ processed_seasons' = processed_seasons
        /\ Len(log') = Len(log) + 1
        /\ SubSeq(log', 1, Len(log)) = log
        /\ log'[Len(log')].row = df[pos]
        /\ log'[Len(log')].level = (IF Malformed THEN "WARNING" ELSE "ERROR")
        /\ pos' = pos + 1
        /\ pc' = "loop"

\* C6. Row-skippable outcomes: a malformed row, a show search, an episode
\* lookup or a movie search that returns absent leaves the output list and
\* both emission sets as they are, appends exactly one diagnostic (WARNING
\* for the malformed row, ERROR otherwise) and moves on to the next row.
C6_RowSkipped == [][C6_SkipStep]_vars

\* A malformed row and then an episode row whose title the index lacks were
\* skipped, each with its diagnostic, and the run went on to its end.
C6_Witness ==
    /\ pc = "done"
    /\ Len(log) = 2
    /\ log[1].level = "WARNING"
    /\ log[2].level = "ERROR" /\ log[2].what = "episode"
    /\ yamtrack_rows = <<>>

\* The catalog answered every request of the run in full.
AllAnswered == \A n \in DOMAIN requests : requests[n].resp = "ok"

Scenario(pt) ==
    /\ pc = "done"
    /\ Len(csv) = 1
    /\ csv[1].pt = pt
    /\ csv[1].st = T_My_Show
    /\ AllAnswered

ScenarioOutput ==
    <<TvEntry(42), SeasonEntry(42, 1),
      EpisodeEntry(42, 1, 1, EndDatetime(csv[1].ts))>>

\* C7 as stated. Prefixed-title scenario: the single row ("S1E1 Pilot",
\* "My Show"), with the catalog answering show id 42 and an episode "Pilot" at
\* season 1 episode 1, yields the tv, season and episode records in order.
C7_PrefixedScenario ==
    Scenario(T_S1E1_Pilot) => yamtrack_rows = ScenarioOutput

\* C7 as amended. The three records are the output when the row's program
\* title is the episode's name up to letter case and surrounding whitespace
\* ("Pilot", "pilot "); for "S1E1 Pilot" the title is looked up with its
\* prefix, is not in the index, and the row yields no record and one ERROR.
C7_UnprefixedScenario ==
    /\ \A pt \in {T_Pilot, T_pilot_} :
          Scenario(pt) =>
              /\ yamtrack_rows = ScenarioOutput
              /\ yamtrack_rows[3].status = "Completed"
              /\ log = <<>>
    /\ Scenario(T_S1E1_Pilot) =>
          /\ yamtrack_rows = <<>>
          /\ Len(log) = 1
          /\ log[1].level = "ERROR" /\ log[1].what = "episode"

\* The scenario has run to its end for "Pilot" (three records written).
C7_Witness == Scenario(T_Pilot) /\ Len(yamtrack_rows) = 3 /\ written

\* The scenario has run to its end for "S1E1 Pilot".
C7_PrefixedWitness == Scenario(T_S1E1_Pilot) /\ written

----------------------------------------------------------------------------
\* "Differ only in letter case or surrounding whitespace", said without
\* lower() and strip().

CasePair(c, d) ==
    \E i \in DOMAIN UpperCase :
        (c = UpperCase[i] /\ d = LowerCase[i]) \/ (c = LowerCase[i] /\ d = UpperCase[i])

SameUpToCase(a, b) ==
    Len(a) = Len(b) /\ \A i \in DOMAIN a : a[i] = b[i] \/ CasePair(a[i], b[i])

\* The parts of s that s is a whitespace padding of.
Cores(s) ==
    {SubSeq(s, i, j) : <<i, j>> \in
        {x \in (1..(Len(s) + 1)) \X (0..Len(s)) :
            /\ x[1] <= x[2] + 1
            /\ \A n \in 1..(x[1] - 1) : s[n] \in Whitespace
            /\ \A n \in (x[2] + 1)..Len(s) : s[n] \in Whitespace
            /\ x[1] <= x[2] => (s[x[1]] \notin Whitespace /\ s[x[2]] \notin Whitespace)}}

DifferOnlyInCaseOrPadding(a, b) ==
    \E ca \in Cores(a), cb \in Cores(b) : SameUpToCase(ca, cb)

\* The titles get_episode_info is asked about by the rows, and two more.
T_PILOT_padded == <<" ","P","I","L","O","T","\t">>
T_FINALE       == <<"F","I","N","A","L","E">>
AllTitles ==
    {Title(t) : t \in ProgramTitles} \cup ProgramTitles
        \cup {T_PILOT_padded, T_FINALE, T_finale_}

\* The relation on these titles (which include every episode name of the
\* catalog), enumerated once.
SameTitleSet ==
    UNION {IF DifferOnlyInCaseOrPadding(x[1], x[2]) THEN {x} ELSE {} :
               x \in AllTitles \X AllTitles}

SameTitle(a, b) == <<a, b>> \in SameTitleSet

\* The queries the lookup law is checked on, and the pairs of them that
\* differ only in case or padding (each pair once).
QuerySeq ==
    <<T_Pilot, T_pilot_, T_PILOT_padded, T_Finale, T_finale_, T_FINALE, T_S1E1_Pilot>>
QueryTitles == {QuerySeq[i] : i \in DOMAIN QuerySeq}
SameTitlePairs ==
    UNION {IF x[1] < x[2] /\ SameTitle(QuerySeq[x[1]], QuerySeq[x[2]])
           THEN {<<QuerySeq[x[1]], QuerySeq[x[2]]>>} ELSE {} :
               x \in (DOMAIN QuerySeq) \X (DOMAIN QuerySeq)}

\* The episodes the catalog listed for a show id while its index was built,
\* in listing order: the "episodes" of every season request answered in full.
RECURSIVE ListedFrom(_, _)
ListedFrom(id, n) ==
    IF n > Len(requests) THEN <<>>
    ELSE (IF /\ requests[n].kind = "season"
             /\ requests[n].tv_id = id
             /\ requests[n].resp = "ok"
          THEN [k \in DOMAIN SeasonEpisodes(id, requests[n].season) |->
                   [name |-> SeasonEpisodes(id, requests[n].season)[k].name,
                    coord |-> <<requests[n].season,
                                SeasonEpisodes(id, requests[n].season)[k].episode_number>>]]
          ELSE <<>>)
         \o ListedFrom(id, n + 1)

Listed(id) == ListedFrom(id, 1)

\* The coordinate of the last listed episode whose name is the title up to
\* case and surrounding whitespace; None when there is none.
LastListedIn(L, title) ==
    LET hits == {k \in DOMAIN L : SameTitle(L[k].name, title)}
    IN  IF hits = {} THEN None
        ELSE L[CHOOSE k \in hits : \A j \in hits : j <= k].coord

LastListed(id, title) == LastListedIn(Listed(id), title)

\* The law for the index of one show id: two titles that differ only in
\* letter case or surrounding whitespace are looked up to the same coordinate,
\* and every title to the coordinate of the last listed episode of that name.
LookupLaw(id) ==
    LET L == Listed(id)
    IN  /\ \A x \in SameTitlePairs :
              Lookup(show_cache[id], x[1]) = Lookup(show_cache[id], x[2])
        /\ \A t \in QueryTitles : Lookup(show_cache[id], t) = LastListedIn(L, t)

\* Every get_episode_info call that returned has returned the coordinate of
\* the last listed episode named as the queried title.
C8_CallsNormalized ==
    \A k \in DOMAIN calls :
        ~calls[k].raised => calls[k].result = LastListed(calls[k].tv_id, calls[k].title)

\* The show id whose index the latest get_episode_info call has built.
LatestBuilt ==
    IF /\ calls # <<>>
       /\ ~calls[Len(calls)].raised
       /\ calls[Len(calls)].to > calls[Len(calls)].from
    THEN {calls[Len(calls)].tv_id} ELSE {}

\* C8. Lookup normalization: for every show id and any two queried titles
\* that differ only in letter case or surrounding whitespace, get_episode_info
\* returns the same coordinate, and it is the coordinate of the last listed
\* catalog episode whose name is equal to them up to case and surrounding
\* whitespace.  The law holds of an index in every state from its build to
\* the next call, the index never changes afterwards, and the result of every
\* call that returned is that coordinate.
C8_LookupNormalized ==
    /\ [](C8_CallsNormalized /\ \A id \in LatestBuilt : LookupLaw(id))
    /\ [][C4_IndexFrozen]_vars

\* Show 42 lists "Finale" (2, 1) and then "finale " (2, 2): a call for
\* "Finale" returned the last listed, and a padded upper-case query finds
\* "Pilot".
C8_Witness ==
    /\ \E k \in DOMAIN calls :
          calls[k].tv_id = 42 /\ calls[k].title = T_Finale /\ calls[k].result = <<2, 2>>
    /\ 42 \in DOMAIN show_cache
    /\ Lookup(show_cache[42], T_PILOT_padded) = <<1, 1>>

\* C9. Episode entry once per episode: the output never holds two "episode"
\* records with the same (media_id, season_number, episode_number).
C9_EpisodeOnce ==
    \A m, n \in DOMAIN yamtrack_rows :
        (/\ m < n
         /\ yamtrack_rows[m].media_type = "episode"
         /\ yamtrack_rows[n].media_type = "episode")
        => <<yamtrack_rows[m].media_id, yamtrack_rows[m].season_number,
             yamtrack_rows[m].episode_number>>
           # <<yamtrack_rows[n].media_id, yamtrack_rows[n].season_number,
               yamtrack_rows[n].episode_number>>

\* A first call that built a degraded index: it returned, and the show
\* response or one of its season responses lacked its list.
Degraded(k) ==
    /\ k = FirstCall(calls[k].tv_id)
    /\ ~calls[k].raised
    /\ \E n \in (calls[k].from + 1)..calls[k].to : requests[n].resp = "nokey"

RowLog(i) == {n \in DOMAIN log : log[n].row = i}

\* C10. A failed index build is permanent: after a first call for show id X
\* in which the show response had no "seasons" or a season response no
\* "episodes", the index built from what was listed is stored for X, and
\* every later episode row that resolves to X with a title that index lacks
\* issues no request after its show search, yields no record and logs one
\* ERROR diagnostic.
C10_FailedBuildPermanent ==
    \A j \in DOMAIN calls :
        Degraded(j) =>
            /\ calls[j].tv_id \in DOMAIN show_cache
            /\ \A key \in DOMAIN show_cache[calls[j].tv_id] :
                  \E e \in Range(Listed(calls[j].tv_id)) : IndexKey(e.name) = key
            /\ \A k \in DOMAIN calls :
                  (/\ k > j
                   /\ calls[k].tv_id = calls[j].tv_id
                   /\ LookupKey(calls[k].title) \notin DOMAIN show_cache[calls[j].tv_id])
                  => /\ calls[k].to = calls[k].from
                     /\ {n \in DOMAIN requests : requests[n].row = calls[k].row}
                            = {calls[k].from}
                     /\ requests[calls[k].from].kind = "search_tv"
                     /\ calls[k].row \notin Range(origin)
                     /\ Cardinality(RowLog(calls[k].row)) = 1
                     /\ \A n \in RowLog(calls[k].row) :
                            log[n].level = "ERROR" /\ log[n].what = "episode"

\* The first call for show 42 got no "episodes" for a season, and a later
\* row asked for "Pilot", which the catalog lists, and was skipped.
C10_Witness ==
    \E j, k \in DOMAIN calls :
        /\ j < k
        /\ Degraded(j)
        /\ calls[k].tv_id = calls[j].tv_id
        /\ calls[k].tv_id = 42
        /\ calls[k].title = T_Pilot
        /\ calls[k].result = None
        /\ pc = "done"

====
